---- MODULE Spec2Model ----
(***************************************************************************)
(* Model of crates/rich_text/src/rich_text.rs: render_markdown_mut folds   *)
(* the parser's event stream into text, highlights, link_ranges and        *)
(* link_urls; render_markdown trims the text afterwards.  One action per   *)
(* match arm of the fold, one for the final trim.  The event stream and    *)
(* the mention queue are the inputs: events are drawn step by step from a  *)
(* properly nested stream, the mention queue is drawn in Init.             *)
(*                                                                         *)
(* Model of crates/collab/src/db/queries/notifications.rs as well:         *)
(* create_notification, remove_notification and find_notification over the *)
(* notifications table, one transaction per action.                        *)
(***************************************************************************)
EXTENDS Integers, Sequences, FiniteSets, TLC

\* ------------------------------------------------------------------ bounds
\* Events of one stream of inline markup (the final trim not counted).
MaxEvents == 6
\* Events of one stream when a mention queue is drawn as well.
MaxMentionEvents == 5
\* Events of one stream with code blocks.
MaxCodeEvents == 5
\* Mentions of the input queue.
MaxMentions == 2
\* Mention ranges lie inside source offsets 0..MaxSrc.
MaxSrc == 4
\* Events of one stream of block-level markup (lists, code blocks).
MaxBlockEvents == 9
\* Text events of one code block with arbitrary tokens.
MaxCodeLines == 1
\* Text events of one code block inside other markup.
MaxSnippetLines == 2
\* Open tags of the event stream.
MaxDepth == 5
\* Largest declared start number of an ordered list.
MaxListStart == 9
\* Events of one stream of plain text.
MaxPlainEvents == 8
\* Blank lines between two paragraphs of the input.
MaxBlankLines == 2
\* Events of one stream with code blocks, inline markup and mentions.
MaxCodeMentionEvents == 5
\* Events of one stream of items inside and outside lists.
MaxItemEvents == 8
\* Events of one stream with line breaks inside lists and inline markup.
MaxBreakEvents == 7
\* Events of one stream with every kind of tag.
MaxNestEvents == 7
\* Rows ever inserted into the notifications table.
MaxNotificationId == 3
\* Users that receive notifications.
MaxUserId == 2
\* Channels of channel invitations.
MaxChannelId == 1

\* --------------------------------------------------------------- variables
VARIABLES
    text,              \* the output buffer, a sequence of characters
    highlights,        \* Vec<(Range<usize>, Highlight)>
    link_ranges,       \* Vec<Range<usize>>
    link_urls,         \* Vec<String>
    bold_depth,
    italic_depth,
    link_url,          \* Option<String>
    current_language,  \* Option<Arc<Language>>
    list_stack,        \* Vec<(Option<u64>, bool)>
    mentions,          \* the rest of the mention queue (&[Mention])
    language,          \* the caller's default language (Option)
    all_mentions,      \* the mention queue as passed in
    src_pos,           \* source offset the parser has reached
    tags,              \* open tags of the stream, innermost last
    stream,            \* the events processed so far, in order
    max_events,        \* how many events the stream may have
    text_log,          \* the Text events processed: source range, output span
    pc,                \* "fold" while events arrive, "done" after the trim
    rows,              \* the notifications table, a set of rows
    next_id,           \* the id the table gives the next row
    call,              \* the last call on the table and what it returned
    forced             \* a row was inserted with avoid_duplicates = false

\* The state of the notifications table.
db_vars == <<rows, next_id, call, forced>>

rich_vars == <<text, highlights, link_ranges, link_urls, bold_depth, italic_depth,
          link_url, current_language, list_stack, mentions, language,
          all_mentions, src_pos, tags, stream, max_events, text_log, pc>>

vars == <<rich_vars, db_vars>>

\* -------------------------------------------------------------- characters
sp == " "
nl == "\n"
None == "None"

Range(s, e) == [start |-> s, end |-> e]

\* char::is_whitespace on the characters of the model.
IsWhitespace(c) == c \in {sp, nl}

Last(s) == s[Len(s)]

\* str::ends_with('\n')
EndsWithNewline(t) == Len(t) > 0 /\ Last(t) = nl

RECURSIVE TrimEndLen(_)
\* text.trim_end().len()
TrimEndLen(t) ==
    IF Len(t) > 0 /\ IsWhitespace(Last(t))
    THEN TrimEndLen(SubSeq(t, 1, Len(t) - 1))
    ELSE Len(t)

Digit(d) == <<"0", "1", "2", "3", "4", "5", "6", "7", "8", "9">>[d + 1]

RECURSIVE Decimal(_)
\* format!("{}", number)
Decimal(n) ==
    IF n < 10 THEN <<Digit(n)>>
    ELSE Decimal(n \div 10) \o <<Digit(n % 10)>>

RECURSIVE Spaces(_)
\* "  " pushed n times
Spaces(n) == IF n <= 0 THEN <<>> ELSE <<sp, sp>> \o Spaces(n - 1)

\* -------------------------------------------------------------- highlights
\* HighlightStyle, reduced to the three fields the fold sets.
Style(w, s, u) == [font_weight |-> w, font_style |-> s, underline |-> u]
DefaultStyle == Style(None, None, FALSE)

\* enum Highlight
HCode == [kind |-> "Code", id |-> 0, style |-> DefaultStyle]
HId(i) == [kind |-> "Id", id |-> i, style |-> DefaultStyle]
HStyle(st) == [kind |-> "Highlight", id |-> 0, style |-> st]
HMention == [kind |-> "Mention", id |-> 0, style |-> DefaultStyle]
HSelfMention == [kind |-> "SelfMention", id |-> 0, style |-> DefaultStyle]

Entry(s, e, h) == [range |-> Range(s, e), highlight |-> h]

\* RangeExt::contains_inclusive
contains_inclusive(outer, inner) ==
    outer.start <= inner.start /\ inner.end <= outer.end

\* ------------------------------------------------------------- procedures
\* MentionEntry with the event's source start not subtracted.
MentionEntry_Unshifted(mention, prev_len, source_range) ==
    Entry(prev_len + mention.range.start,
          prev_len + mention.range.end,
          IF mention.is_self_mention THEN HSelfMention ELSE HMention)

\* The annotation of one popped mention (lines 135-144).
MentionEntry(mention, prev_len, source_range) ==
    Entry(prev_len + mention.range.start - source_range.start,
          prev_len + mention.range.end - source_range.start,
          IF mention.is_self_mention THEN HSelfMention ELSE HMention)

\* Whether the loop of lines 130-145 goes on with the front mention.
FrontMatches(mq, source_range) ==
    mq # <<>> /\ contains_inclusive(source_range, Head(mq).range)

RECURSIVE SpliceMentions_Skipping(_, _, _, _)
\* SpliceMentions looking past a front mention that does not match.
SpliceMentions_Skipping(mq, hl, prev_len, source_range) ==
    IF mq = <<>> THEN [mentions |-> mq, highlights |-> hl]
    ELSE IF contains_inclusive(source_range, Head(mq).range)
         THEN SpliceMentions_Skipping(
                  Tail(mq),
                  Append(hl, MentionEntry(Head(mq), prev_len, source_range)),
                  prev_len, source_range)
         ELSE LET rest == SpliceMentions_Skipping(Tail(mq), hl, prev_len,
                                                  source_range)
              IN [mentions |-> <<Head(mq)>> \o rest.mentions,
                  highlights |-> rest.highlights]

RECURSIVE SpliceMentions(_, _, _, _)
\* while let Some(mention) = mentions.first() { ... } (lines 130-145)
SpliceMentions(mq, hl, prev_len, source_range) ==
    IF ~FrontMatches(mq, source_range)
    THEN [mentions |-> mq, highlights |-> hl]
    ELSE SpliceMentions(Tail(mq),
                        Append(hl, MentionEntry(Head(mq), prev_len, source_range)),
                        prev_len, source_range)

\* EffectiveStyle with the italic component lost under bold.
EffectiveStyle_BoldWins(bold, italic, url) ==
    Style(IF bold > 0 THEN "BOLD" ELSE None,
          IF italic > 0 /\ bold = 0 THEN "Italic" ELSE None,
          url # None)

\* The style of a text run (lines 148-162).
EffectiveStyle(bold, italic, url) ==
    Style(IF bold > 0 THEN "BOLD" ELSE None,
          IF italic > 0 THEN "Italic" ELSE None,
          url # None)

\* The underline-only style of an inline code span in a link (lines 185-191).
UnderlineStyle == Style(None, None, TRUE)

\* PushLink pushing the url of the first link again.
PushLink_StaleUrl(lr, lu, prev_len, len, url) ==
    IF url # None
    THEN [link_ranges |-> Append(lr, Range(prev_len, len)),
          link_urls |-> Append(lu, IF lu # <<>> THEN lu[1] ELSE url)]
    ELSE [link_ranges |-> lr, link_urls |-> lu]

\* PushLink with the range begun at the start of the text.
PushLink_FromStart(lr, lu, prev_len, len, url) ==
    IF url # None
    THEN [link_ranges |-> Append(lr, Range(0, len)),
          link_urls |-> Append(lu, url)]
    ELSE [link_ranges |-> lr, link_urls |-> lu]

\* link_ranges.push(prev_len..text.len()); link_urls.push(link_url)
\* (lines 155-157 and 194-197)
PushLink(lr, lu, prev_len, len, url) ==
    IF url # None
    THEN [link_ranges |-> Append(lr, Range(prev_len, len)),
          link_urls |-> Append(lu, url)]
    ELSE [link_ranges |-> lr, link_urls |-> lu]

\* Whether the last entry is extended instead of a new one pushed
\* (lines 166-169).
CanExtend(hl, prev_len, style) ==
    /\ hl # <<>>
    /\ Last(hl).range.end = prev_len
    /\ Last(hl).highlight = HStyle(style)

\* Extend the last entry or push a new one (lines 164-177).
PushStyle(hl, prev_len, len, style) ==
    IF style = DefaultStyle THEN hl
    ELSE IF CanExtend(hl, prev_len, style)
         THEN [hl EXCEPT ![Len(hl)].range.end = len]
         ELSE Append(hl, Entry(prev_len, len, HStyle(style)))

RECURSIVE CodeTokens(_, _, _, _)
\* The loop of render_code over the tokens (lines 298-307); yields the
\* highlights and the final offset.
CodeTokens(hl, toks, prev_len, offset) ==
    IF toks = <<>> THEN [highlights |-> hl, offset |-> offset]
    ELSE LET range == Head(toks).range
             gap == IF range.start > offset
                    THEN Append(hl, Entry(prev_len + offset,
                                          prev_len + range.start, HCode))
                    ELSE hl
         IN CodeTokens(Append(gap, Entry(prev_len + range.start,
                                         prev_len + range.end,
                                         HId(Head(toks).id))),
                       Tail(toks), prev_len, range.end)

\* CodeTail with the gap after the last token forgotten.
CodeTail_Skipped(hl, prev_len, offset, n) == hl

\* The gap after the last token (lines 308-310).
CodeTail(hl, prev_len, offset, n) ==
    IF offset < n
    THEN Append(hl, Entry(prev_len + offset, prev_len + n, HCode))
    ELSE hl

\* render_code with a generic-code run joined to the generic-code entry that
\* ends where it begins.
render_code_Merging(txt, hl, content, toks) ==
    LET prev_len == Len(txt)
        looped == CodeTokens(<<>>, toks, prev_len, 0)
        new == CodeTail(looped.highlights, prev_len, looped.offset, Len(content))
    IN [text |-> txt \o content,
        highlights |->
            IF /\ hl # <<>> /\ new # <<>>
               /\ Last(hl).highlight = HCode /\ Head(new).highlight = HCode
               /\ Last(hl).range.end = Head(new).range.start
            THEN [hl EXCEPT ![Len(hl)].range.end = Head(new).range.end]
                     \o Tail(new)
            ELSE hl \o new]

\* render_code (lines 289-311); toks is what language.highlight_text returns.
render_code(txt, hl, content, toks) ==
    LET prev_len == Len(txt)
        looped == CodeTokens(hl, toks, prev_len, 0)
    IN [text |-> txt \o content,
        highlights |-> CodeTail(looped.highlights, prev_len, looped.offset,
                                Len(content))]

\* Option<u64>
Some(n) == [some |-> TRUE, v |-> n]
NoNumber == [some |-> FALSE, v |-> 0]

\* A frame of list_stack: (Option<u64>, bool)
Frame(number, has_content) == [number |-> number, has_content |-> has_content]

\* ParagraphBreak with the second line break forgotten.
ParagraphBreak_Single(txt) ==
    IF txt # <<>> /\ ~EndsWithNewline(txt) THEN <<nl>> ELSE <<>>

\* The line breaks new_paragraph appends (lines 324-329).
ParagraphBreak(txt) ==
    IF txt # <<>>
    THEN (IF ~EndsWithNewline(txt) THEN <<nl>> ELSE <<>>) \o <<nl>>
    ELSE <<>>

\* new_paragraph with the indentation of a continuation paragraph forgotten.
new_paragraph_Flat(txt, stack) ==
    IF stack # <<>> /\ ~Last(stack).has_content
    THEN [text |-> txt,
          list_stack |-> [stack EXCEPT ![Len(stack)].has_content = TRUE]]
    ELSE [text |-> txt \o ParagraphBreak(txt)
                       \o Spaces(IF Len(stack) > 0 THEN Len(stack) - 1 ELSE 0),
          list_stack |-> stack]

\* new_paragraph (lines 313-336)
new_paragraph(txt, stack) ==
    IF stack # <<>> /\ ~Last(stack).has_content
    THEN [text |-> txt,
          list_stack |-> [stack EXCEPT ![Len(stack)].has_content = TRUE]]
    ELSE LET is_subsequent_paragraph_of_list == stack # <<>>
             depth == IF Len(stack) > 0 THEN Len(stack) - 1 ELSE 0
         IN [text |-> txt \o ParagraphBreak(txt) \o Spaces(depth)
                          \o (IF is_subsequent_paragraph_of_list
                              THEN <<sp, sp>> ELSE <<>>),
             list_stack |-> stack]

\* The marker of an item (lines 232-238).
ItemMarker(list_number) ==
    IF list_number.some
    THEN Decimal(list_number.v) \o <<".", sp>>
    ELSE <<"-", sp>>

\* NextNumber with the increment forgotten.
NextNumber_Stuck(list_number) == list_number

\* The counter of the frame after an item (line 234).
NextNumber(list_number) ==
    IF list_number.some THEN Some(list_number.v + 1) ELSE list_number

\* text.truncate(text.trim_end().len()) (line 279)
Truncate(txt) == SubSeq(txt, 1, TrimEndLen(txt))

\* ------------------------------------------------------------------ inputs
\* Event payloads.
Bold == <<"b", "o", "l", "d">>
SpText == <<sp, "t", "e", "x", "t">>
LinkT == <<"l", "i", "n", "k">>
Ab == <<"a", "b">>
ASp == <<"a", sp>>
CodeLine == <<"f", "n", nl>>

Urls == {"http://x", "http://y"}
Languages == {"rust"}
TokenIds == {1, 2}

\* Ascending, non-overlapping, non-empty token ranges inside [from, n): what
\* the tokenizer may return for a string of n bytes.
RECURSIVE TokenListsFrom(_, _)
TokenListsFrom(from, n) ==
    {<<>>} \cup
    UNION {{<<[range |-> Range(s, e), id |-> i]>> \o rest :
              rest \in TokenListsFrom(e, n)} :
           <<s, e, i>> \in {x \in (from..n) \X (from..n) \X TokenIds :
                              x[1] < x[2]}}

TokenLists(n) == TokenListsFrom(0, n)

\* Mention { range, is_self_mention }
Mention(s, e, self) == [range |-> Range(s, e), is_self_mention |-> self]

\* The caller's contract: ascending by start, non-overlapping.
RECURSIVE MentionQueuesFrom(_, _)
MentionQueuesFrom(from, k) ==
    {<<>>} \cup
    (IF k = 0 THEN {}
     ELSE UNION {{<<Mention(x[1], x[2], x[3])>> \o rest :
                    rest \in MentionQueuesFrom(x[2], k - 1)} :
                 x \in {y \in (from..MaxSrc) \X (from..MaxSrc) \X BOOLEAN :
                          y[1] < y[2]}})

MentionQueues == MentionQueuesFrom(0, MaxMentions)

\* ----------------------------------------------------------- notifications
\* rpc::Notification: a contact request by an actor, a channel invitation by
\* an actor to a channel.
ContactRequest(actor_id) ==
    [kind |-> "ContactRequest", actor_id |-> actor_id, channel_id |-> 0]
ChannelInvitation(actor_id, channel_id) ==
    [kind |-> "ChannelInvitation", actor_id |-> actor_id, channel_id |-> channel_id]

UserIds == 1..MaxUserId

\* The users that cause notifications.
ActorIds == {1, 2}

Notifications ==
    {ContactRequest(a) : a \in ActorIds}
        \cup {ChannelInvitation(1, c) : c \in 1..MaxChannelId}

\* Notification::to_proto: the variant name, the actor, and the other
\* fields serialized as the content (none for a contact request).
to_proto(notification) ==
    [kind |-> notification.kind,
     actor_id |-> Some(notification.actor_id),
     content |-> IF notification.kind = "ChannelInvitation"
                 THEN <<"channel_id", notification.channel_id>>
                 ELSE <<>>]

\* Notification::from_proto: the variant named by kind rebuilt from the
\* actor and the content.
from_proto(proto) ==
    IF proto.kind = "ChannelInvitation"
    THEN ChannelInvitation(proto.actor_id.v, proto.content[2])
    ELSE ContactRequest(proto.actor_id.v)

\* The ids initialize_notification_enum gave the variant names.
notification_kinds_by_name == [ContactRequest |-> 1, ChannelInvitation |-> 2]
notification_kinds_by_id == <<"ContactRequest", "ChannelInvitation">>

\* notification::Model
Row(id, recipient_id, kind, actor_id, content, is_read) ==
    [id |-> id, recipient_id |-> recipient_id, kind |-> kind,
     actor_id |-> actor_id, content |-> content, is_read |-> is_read]

\* model_to_proto (lines 167-177), without the timestamp.
model_to_proto(row) ==
    [id |-> row.id,
     kind |-> notification_kinds_by_id[row.kind],
     is_read |-> row.is_read,
     content |-> row.content,
     actor_id |-> row.actor_id]

\* find_notification without the filter on the recipient.
find_notification_AnyRecipient(table, recipient_id, notification) ==
    LET proto == to_proto(notification)
        kind == notification_kinds_by_name[proto.kind]
    IN {row.id : row \in {r \in table :
                             /\ r.is_read = FALSE
                             /\ r.kind = kind
                             /\ r.actor_id = proto.actor_id
                             /\ from_proto(model_to_proto(r)) = notification}}

\* find_notification (lines 128-165): the ids it may return, one for each
\* row that passes the filter and decodes to the notification (the rows
\* stream in no stated order); none when the set is empty.
find_notification(table, recipient_id, notification) ==
    LET proto == to_proto(notification)
        kind == notification_kinds_by_name[proto.kind]
    IN {row.id : row \in {r \in table :
                             /\ r.recipient_id = recipient_id
                             /\ r.is_read = FALSE
                             /\ r.kind = kind
                             /\ r.actor_id = proto.actor_id
                             /\ from_proto(model_to_proto(r)) = notification}}

\* A call and its result: Option<id>.
Call(op, recipient_id, notification, avoid_duplicates, result) ==
    [op |-> op, recipient_id |-> recipient_id, notification |-> notification,
     avoid_duplicates |-> avoid_duplicates, result |-> result]

NoCall == Call("none", 0, ContactRequest(0), FALSE, NoNumber)

InitDb ==
    /\ rows = {}
    /\ next_id = 1
    /\ call = NoCall
    /\ forced = FALSE

\* create_notification (lines 67-111)
create_notification(recipient_id, notification, avoid_duplicates) ==
    /\ next_id <= MaxNotificationId
    /\ IF avoid_duplicates
          /\ find_notification(rows, recipient_id, notification) # {}
       THEN /\ call' = Call("create", recipient_id, notification,
                            avoid_duplicates, NoNumber)
            /\ UNCHANGED <<rows, next_id>>
       ELSE LET notification_proto == to_proto(notification)
                kind == notification_kinds_by_name[notification_proto.kind]
                model == Row(next_id, recipient_id, kind,
                             notification_proto.actor_id,
                             notification_proto.content, FALSE)
            IN /\ rows' = rows \cup {model}
               /\ next_id' = next_id + 1
               /\ call' = Call("create", recipient_id, notification,
                               avoid_duplicates, Some(model.id))
    /\ forced' = (forced \/ ~avoid_duplicates)
    /\ UNCHANGED rich_vars

\* remove_notification (lines 113-126)
remove_notification(recipient_id, notification) ==
    /\ LET found == find_notification(rows, recipient_id, notification)
       IN IF found = {}
          THEN /\ call' = Call("remove", recipient_id, notification, FALSE,
                               NoNumber)
               /\ UNCHANGED rows
          ELSE \E id \in found :
                  /\ rows' = {r \in rows : r.id # id}
                  /\ call' = Call("remove", recipient_id, notification, FALSE,
                                  Some(id))
    /\ UNCHANGED <<next_id, forced>>
    /\ UNCHANGED rich_vars

\* ------------------------------------------------------------ event stream
\* An open tag; items counts the items of a list and the Text events of any
\* other tag.
Tag(t) == [tag |-> t, start |-> NoNumber, items |-> 0]
ListTag(number) == [tag |-> "List", start |-> number, items |-> 0]

Top == IF tags = <<>> THEN "Document" ELSE Last(tags).tag
Pop(s) == SubSeq(s, 1, Len(s) - 1)
Open(t) == \E i \in 1..Len(tags) : tags[i].tag = t

\* Where the parser emits block-level starts.
BlockCtx == Top \in {"Document", "Item"}
\* Where the parser emits inline events.
InlineCtx == Top \in {"Paragraph", "Heading", "Emphasis", "Strong", "Link", "Item"}
\* Where the parser emits Text.
TextCtx == InlineCtx \/ Top = "CodeBlock"

nevents == Len(stream)
More == pc = "fold" /\ nevents < max_events
CanOpen == More /\ Len(tags) < MaxDepth

\* An event: its kind, its tag (Start and End) and its payload as a sequence
\* of strings (the characters of a text, the url of a link, the digits of a
\* list's start number).
Event(kind, tag, t) == [kind |-> kind, tag |-> tag, t |-> t]

\* The event processed last.
ev == IF stream = <<>> THEN Event("Init", None, <<>>) ELSE Last(stream)

\* What an event leaves alone besides the fold's own state.
Step(e) ==
    /\ stream' = Append(stream, e)
    /\ UNCHANGED <<language, all_mentions, max_events, pc>>
    /\ UNCHANGED db_vars

InitWith(mq, lang, limit) ==
    /\ text = <<>>
    /\ highlights = <<>>
    /\ link_ranges = <<>>
    /\ link_urls = <<>>
    /\ bold_depth = 0
    /\ italic_depth = 0
    /\ link_url = None
    /\ current_language = None
    /\ list_stack = <<>>
    /\ mentions = mq
    /\ all_mentions = mq
    /\ language = lang
    /\ src_pos = 0
    /\ tags = <<>>
    /\ stream = <<>>
    /\ max_events = limit
    /\ text_log = <<>>
    /\ pc = "fold"
    /\ InitDb

\* ------------------------------------------------------------------ actions
\* Event::Text(t) (lines 126-179); toks is the tokenizer's answer when the
\* text is code.
TextEvent(t, toks) ==
    /\ More /\ TextCtx
    /\ LET prev_len == Len(text)
           source_range == Range(src_pos, src_pos + Len(t))
       IN /\ IF current_language # None
             THEN LET r == render_code(text, highlights, t, toks)
                  IN /\ text' = r.text
                     /\ highlights' = r.highlights
                     /\ UNCHANGED <<mentions, link_ranges, link_urls>>
             ELSE LET spliced == SpliceMentions(mentions, highlights,
                                                prev_len, source_range)
                      len == prev_len + Len(t)
                      style == EffectiveStyle(bold_depth, italic_depth, link_url)
                      links == PushLink(link_ranges, link_urls, prev_len, len,
                                        link_url)
                  IN /\ mentions' = spliced.mentions
                     /\ text' = text \o t
                     /\ link_ranges' = links.link_ranges
                     /\ link_urls' = links.link_urls
                     /\ highlights' = PushStyle(spliced.highlights, prev_len,
                                                len, style)
          /\ text_log' = Append(text_log,
                                [source |-> source_range, dest |-> prev_len,
                                 len |-> Len(t),
                                 code |-> current_language # None,
                                 style |-> EffectiveStyle(bold_depth,
                                                          italic_depth, link_url),
                                 toks |-> toks,
                                 at |-> nevents + 1])
          /\ src_pos' = source_range.end
    /\ tags' = [tags EXCEPT ![Len(tags)].items = @ + 1]
    /\ Step(Event("Text", None, t))
    /\ UNCHANGED <<bold_depth, italic_depth, link_url, current_language,
                   list_stack>>

\* Event::Code(t) (lines 180-198)
CodeEvent(t) ==
    /\ More /\ InlineCtx
    /\ LET prev_len == Len(text)
           len == prev_len + Len(t)
           links == PushLink(link_ranges, link_urls, prev_len, len, link_url)
       IN /\ text' = text \o t
          /\ highlights' = IF link_url # None
                           THEN Append(highlights,
                                       Entry(prev_len, len, HStyle(UnderlineStyle)))
                           ELSE highlights
          /\ link_ranges' = links.link_ranges
          /\ link_urls' = links.link_urls
    /\ src_pos' = src_pos + Len(t) + 2
    /\ Step(Event("Code", None, t))
    /\ UNCHANGED <<bold_depth, italic_depth, link_url, current_language,
                   list_stack, mentions, tags, text_log>>

\* Event::Start(Tag::Paragraph) (line 200)
StartParagraph ==
    /\ CanOpen /\ BlockCtx
    /\ LET r == new_paragraph(text, list_stack)
       IN text' = r.text /\ list_stack' = r.list_stack
    /\ tags' = Append(tags, Tag("Paragraph"))
    /\ Step(Event("Start", "Paragraph", <<>>))
    /\ UNCHANGED <<highlights, link_ranges, link_urls, bold_depth, italic_depth,
                   link_url, current_language, mentions, src_pos, text_log>>

\* Event::Start(Tag::Heading) (lines 201-204)
StartHeading ==
    /\ CanOpen /\ BlockCtx
    /\ LET r == new_paragraph(text, list_stack)
       IN text' = r.text /\ list_stack' = r.list_stack
    /\ bold_depth' = bold_depth + 1
    /\ tags' = Append(tags, Tag("Heading"))
    /\ src_pos' = src_pos + 2
    /\ Step(Event("Start", "Heading", <<>>))
    /\ UNCHANGED <<highlights, link_ranges, link_urls, italic_depth, link_url,
                   current_language, mentions, text_log>>

\* Resolved waiting for a pending answer.
Resolved_Awaited(outcome) ==
    IF outcome \in Languages THEN outcome
    ELSE IF outcome = "Pending" THEN CHOOSE l \in Languages : TRUE
    ELSE None

\* What language_for_name(..).now_or_never().and_then(Result::ok) yields.
Resolved(outcome) ==
    IF outcome \in Languages THEN outcome ELSE None

\* The answers of the registry: a language, an error, or not ready yet.
Resolutions == Languages \cup {"Err", "Pending"}

\* Event::Start(Tag::CodeBlock(kind)) (lines 205-215), wherever the event
\* arrives: the fold does not look at what is open.
CodeBlockEvent(fenced, outcome) ==
    /\ CanOpen
    /\ LET r == new_paragraph(text, list_stack)
       IN text' = r.text /\ list_stack' = r.list_stack
    /\ current_language' = IF fenced THEN Resolved(outcome) ELSE language
    /\ tags' = Append(tags, Tag("CodeBlock"))
    /\ src_pos' = src_pos + 4
    /\ Step(Event("Start", "CodeBlock",
                  IF fenced THEN <<"Fenced", outcome>> ELSE <<"Indented">>))
    /\ UNCHANGED <<highlights, link_ranges, link_urls, bold_depth, italic_depth,
                   link_url, mentions, text_log>>

\* A code block where the parser emits block-level starts.
StartCodeBlock(fenced, outcome) ==
    BlockCtx /\ CodeBlockEvent(fenced, outcome)

\* Event::Start(Tag::Emphasis) (line 216)
StartEmphasis ==
    /\ CanOpen /\ InlineCtx
    /\ italic_depth' = italic_depth + 1
    /\ tags' = Append(tags, Tag("Emphasis"))
    /\ src_pos' = src_pos + 1
    /\ Step(Event("Start", "Emphasis", <<>>))
    /\ UNCHANGED <<text, highlights, link_ranges, link_urls, bold_depth,
                   link_url, current_language, list_stack, mentions, text_log>>

\* Event::Start(Tag::Strong) (line 217)
StartStrong ==
    /\ CanOpen /\ InlineCtx
    /\ bold_depth' = bold_depth + 1
    /\ tags' = Append(tags, Tag("Strong"))
    /\ src_pos' = src_pos + 2
    /\ Step(Event("Start", "Strong", <<>>))
    /\ UNCHANGED <<text, highlights, link_ranges, link_urls, italic_depth,
                   link_url, current_language, list_stack, mentions, text_log>>

\* Event::Start(Tag::Link(_, url, _)) (line 218); links do not nest.
StartLink(url) ==
    /\ CanOpen /\ InlineCtx /\ ~Open("Link")
    /\ link_url' = url
    /\ tags' = Append(tags, Tag("Link"))
    /\ src_pos' = src_pos + 1
    /\ Step(Event("Start", "Link", <<url>>))
    /\ UNCHANGED <<text, highlights, link_ranges, link_urls, bold_depth,
                   italic_depth, current_language, list_stack, mentions, text_log>>

\* Event::Start(Tag::List(number)) (lines 219-221)
StartList(number) ==
    /\ CanOpen /\ BlockCtx
    /\ list_stack' = Append(list_stack, Frame(number, FALSE))
    /\ tags' = Append(tags, ListTag(number))
    /\ Step(Event("Start", "List",
                  IF number.some THEN Decimal(number.v) ELSE <<>>))
    /\ UNCHANGED <<text, highlights, link_ranges, link_urls, bold_depth,
                   italic_depth, link_url, current_language, mentions, src_pos,
                   text_log>>

\* ItemPrefix with one level of indentation too many.
ItemPrefix_Deep(txt, len, list_number) ==
    (IF txt # <<>> /\ ~EndsWithNewline(txt) THEN <<nl>> ELSE <<>>)
        \o Spaces(len) \o ItemMarker(list_number)

\* The text an item start appends (lines 226-238).
ItemPrefix(txt, len, list_number) ==
    (IF txt # <<>> /\ ~EndsWithNewline(txt) THEN <<nl>> ELSE <<>>)
        \o Spaces(len - 1) \o ItemMarker(list_number)

\* Event::Start(Tag::Item) (lines 222-240), wherever the event arrives.
ItemEvent ==
    /\ CanOpen
    /\ LET len == Len(list_stack)
       IN IF list_stack # <<>>
          THEN LET list_number == Last(list_stack).number
               IN /\ text' = text \o ItemPrefix(text, len, list_number)
                  /\ list_stack' = [list_stack EXCEPT
                                      ![len] = Frame(NextNumber(list_number), FALSE)]
          ELSE UNCHANGED <<text, list_stack>>
    /\ tags' = Append(IF tags = <<>> THEN tags
                       ELSE [tags EXCEPT ![Len(tags)].items = @ + 1],
                       Tag("Item"))
    /\ src_pos' = src_pos + 2
    /\ Step(Event("Start", "Item", <<>>))
    /\ UNCHANGED <<highlights, link_ranges, link_urls, bold_depth, italic_depth,
                   link_url, current_language, mentions, text_log>>

\* An item where the parser emits it: directly inside a list.
StartItem == Top = "List" /\ ItemEvent

\* Event::End(Tag::Heading) (line 244)
EndHeading ==
    /\ More /\ Top = "Heading"
    /\ bold_depth' = bold_depth - 1
    /\ tags' = Pop(tags)
    /\ Step(Event("End", "Heading", <<>>))
    /\ UNCHANGED <<text, highlights, link_ranges, link_urls, italic_depth,
                   link_url, current_language, list_stack, mentions, src_pos,
                   text_log>>

\* Event::End(Tag::CodeBlock) (line 245)
EndCodeBlock ==
    /\ More /\ Top = "CodeBlock"
    /\ current_language' = None
    /\ tags' = Pop(tags)
    /\ src_pos' = src_pos + 4
    /\ Step(Event("End", "CodeBlock", <<>>))
    /\ UNCHANGED <<text, highlights, link_ranges, link_urls, bold_depth,
                   italic_depth, link_url, list_stack, mentions, text_log>>

\* Event::End(Tag::Emphasis) (line 246)
EndEmphasis ==
    /\ More /\ Top = "Emphasis"
    /\ italic_depth' = italic_depth - 1
    /\ tags' = Pop(tags)
    /\ src_pos' = src_pos + 1
    /\ Step(Event("End", "Emphasis", <<>>))
    /\ UNCHANGED <<text, highlights, link_ranges, link_urls, bold_depth,
                   link_url, current_language, list_stack, mentions, text_log>>

\* EndStrong switching bold off instead of counting down.
EndStrong_Reset ==
    /\ More /\ Top = "Strong"
    /\ bold_depth' = 0
    /\ tags' = Pop(tags)
    /\ src_pos' = src_pos + 2
    /\ Step(Event("End", "Strong", <<>>))
    /\ UNCHANGED <<text, highlights, link_ranges, link_urls, italic_depth,
                   link_url, current_language, list_stack, mentions, text_log>>

\* Event::End(Tag::Strong) (line 247)
EndStrong ==
    /\ More /\ Top = "Strong"
    /\ bold_depth' = bold_depth - 1
    /\ tags' = Pop(tags)
    /\ src_pos' = src_pos + 2
    /\ Step(Event("End", "Strong", <<>>))
    /\ UNCHANGED <<text, highlights, link_ranges, link_urls, italic_depth,
                   link_url, current_language, list_stack, mentions, text_log>>

\* Event::End(Tag::Link) (line 248)
EndLink ==
    /\ More /\ Top = "Link"
    /\ link_url' = None
    /\ tags' = Pop(tags)
    /\ src_pos' = src_pos + 3
    /\ Step(Event("End", "Link", <<>>))
    /\ UNCHANGED <<text, highlights, link_ranges, link_urls, bold_depth,
                   italic_depth, current_language, list_stack, mentions, text_log>>

\* Event::End(Tag::List) (line 249)
EndList ==
    /\ More /\ Top = "List" /\ Last(tags).items > 0
    /\ list_stack' = Pop(list_stack)
    /\ tags' = Pop(tags)
    /\ Step(Event("End", "List", <<>>))
    /\ UNCHANGED <<text, highlights, link_ranges, link_urls, bold_depth,
                   italic_depth, link_url, current_language, mentions, src_pos,
                   text_log>>

\* Event::End of a paragraph or an item (line 250)
EndOther ==
    /\ More /\ Top \in {"Paragraph", "Item"}
    /\ tags' = Pop(tags)
    /\ Step(Event("End", Top, <<>>))
    /\ UNCHANGED <<text, highlights, link_ranges, link_urls, bold_depth,
                   italic_depth, link_url, current_language, list_stack,
                   mentions, src_pos, text_log>>

\* BreakEvent breaking the paragraph: a blank line and the indentation.
BreakEvent_Paragraph(kind) ==
    /\ More /\ InlineCtx
    /\ LET r == new_paragraph(text, list_stack)
       IN text' = r.text /\ list_stack' = r.list_stack
    /\ src_pos' = src_pos + 1
    /\ Step(Event(kind, None, <<>>))
    /\ UNCHANGED <<highlights, link_ranges, link_urls, bold_depth, italic_depth,
                   link_url, current_language, mentions, tags, text_log>>

\* Event::HardBreak, Event::SoftBreak (lines 252-253)
BreakEvent(kind) ==
    /\ More /\ InlineCtx
    /\ text' = Append(text, nl)
    /\ src_pos' = src_pos + 1
    /\ Step(Event(kind, None, <<>>))
    /\ UNCHANGED <<highlights, link_ranges, link_urls, bold_depth, italic_depth,
                   link_url, current_language, list_stack, mentions, tags,
                   text_log>>

\* render_markdown after the fold (lines 279-286): the stream is exhausted,
\* the text is trimmed.
Finish ==
    /\ pc = "fold" /\ tags = <<>>
    /\ text' = Truncate(text)
    /\ pc' = "done"
    /\ UNCHANGED <<highlights, link_ranges, link_urls, bold_depth, italic_depth,
                   link_url, current_language, list_stack, mentions, language,
                   all_mentions, src_pos, tags, stream, max_events, text_log>>
    /\ UNCHANGED db_vars

\* ----------------------------------------------------------- specifications
\* Inline markup with mentions: text runs, code spans, strong, links.
InitMention == \E mq \in MentionQueues : InitWith(mq, None, MaxMentionEvents)

NextMention ==
    \/ StartParagraph
    \/ \E t \in {Ab, ASp} : TextEvent(t, <<>>)
    \/ \E t \in {Ab} : CodeEvent(t)
    \/ StartStrong
    \/ EndStrong
    \/ \E u \in {"http://x"} : StartLink(u)
    \/ EndLink
    \/ EndOther
    \/ Finish

SpecMention == InitMention /\ [][NextMention]_vars

\* Inline markup without mentions: every inline event, headings, two urls.
InitInline == InitWith(<<>>, None, MaxEvents)

NextInline ==
    \/ StartParagraph
    \/ StartHeading
    \/ \E t \in {Bold, SpText, LinkT, ASp} : TextEvent(t, <<>>)
    \/ \E t \in {Ab} : CodeEvent(t)
    \/ StartEmphasis
    \/ EndEmphasis
    \/ StartStrong
    \/ EndStrong
    \/ \E u \in Urls : StartLink(u)
    \/ EndLink
    \/ EndHeading
    \/ EndOther
    \/ \E k \in {"HardBreak", "SoftBreak"} : BreakEvent(k)
    \/ Finish

SpecInline == InitInline /\ [][NextInline]_vars

\* Lists: nested ordered and unordered lists, items, paragraphs, text.
InitList == InitWith(<<>>, None, MaxBlockEvents)

ListStarts == {NoNumber, Some(1), Some(MaxListStart)}

NextList ==
    \/ StartParagraph
    \/ \E number \in ListStarts : StartList(number)
    \/ StartItem
    \/ EndList
    \/ EndOther
    \/ \E t \in {Ab} : TextEvent(t, <<>>)
    \/ Finish

SpecList == InitList /\ [][NextList]_vars

\* Code blocks: fenced and indented, the registry's and the tokenizer's
\* answers, paragraphs of plain text around them.
InitCode == \E lang \in Languages \cup {None} : InitWith(<<>>, lang, MaxCodeEvents)

\* What the tokenizer may return for CodeLine.
CodeLineTokens == TokenLists(Len(CodeLine))

NextCode ==
    \/ StartParagraph
    \/ EndOther
    \/ \E t \in {Ab} : Top # "CodeBlock" /\ TextEvent(t, <<>>)
    \/ \E t \in {CodeLine} :
         \E toks \in (IF current_language # None THEN CodeLineTokens ELSE {<<>>}) :
            /\ Top = "CodeBlock"
            /\ Last(tags).items < MaxCodeLines
            /\ TextEvent(t, toks)
    \/ \E outcome \in Resolutions : StartCodeBlock(TRUE, outcome)
    \/ StartCodeBlock(FALSE, None)
    \/ EndCodeBlock
    \/ Finish

SpecCode == InitCode /\ [][NextCode]_vars

\* Plain text: paragraphs of text runs and soft breaks, no mentions.  The
\* parser strips the whitespace around a line break, so no paragraph and no
\* line ends in a text run that ends in whitespace.
InitPlain == InitWith(<<>>, None, MaxPlainEvents)

AfterWord == ev.kind = "Text" /\ ~IsWhitespace(Last(ev.t))

NextPlain ==
    \/ StartParagraph
    \/ \E t \in {Ab, ASp} : TextEvent(t, <<>>)
    \/ AfterWord /\ BreakEvent("SoftBreak")
    \/ AfterWord /\ EndOther
    \/ Finish

SpecPlain == InitPlain /\ [][NextPlain]_vars

\* The inputs the parser turns into a stream of paragraphs, text runs and
\* soft breaks: the text runs as they are, a line break for a soft break,
\* and between two paragraphs the line break that ends the first followed
\* by some blank lines, their number drawn from blanks.
RECURSIVE Blocks(_, _)
Blocks(evs, blanks) ==
    IF evs = <<>> THEN {<<>>}
    ELSE LET e == Last(evs)
             before == Blocks(Pop(evs), blanks)
         IN IF e.kind = "Text" THEN {b \o e.t : b \in before}
            ELSE IF e.kind \in {"SoftBreak", "HardBreak"}
                 THEN {Append(b, nl) : b \in before}
            ELSE IF e.kind = "Start" /\ e.tag = "Paragraph"
                 THEN {IF b = <<>> THEN b
                       ELSE Append(b, nl) \o [i \in 1..k |-> nl] :
                          b \in before, k \in blanks}
            ELSE before

\* Code blocks with mentions and inline markup around them.  The fold takes
\* the events as they come, so a code block may begin while strong, emphasis
\* or a link is open; the mention ranges reach into the code.
ShiftedQueues(d) ==
    {[i \in 1..Len(q) |->
         Mention(q[i].range.start + d, q[i].range.end + d, q[i].is_self_mention)] :
       q \in MentionQueuesFrom(0, 1)}

CodeMentionQueues == ShiftedQueues(0) \cup ShiftedQueues(MaxSrc)

\* Two of the tokenizer's answers for CodeLine: no token, one token and a gap.
FnTokens == {<<>>, <<[range |-> Range(0, 2), id |-> 1]>>}

InitCodeMention ==
    \E mq \in CodeMentionQueues : InitWith(mq, "rust", MaxCodeMentionEvents)

NextCodeMention ==
    \/ StartParagraph
    \/ EndOther
    \/ StartStrong
    \/ EndStrong
    \/ StartEmphasis
    \/ EndEmphasis
    \/ \E u \in {"http://x"} : StartLink(u)
    \/ EndLink
    \/ \E t \in {Ab} : Top # "CodeBlock" /\ TextEvent(t, <<>>)
    \/ \E t \in {CodeLine} :
         \E toks \in (IF current_language # None THEN FnTokens ELSE {<<>>}) :
            /\ Top = "CodeBlock"
            /\ Last(tags).items < MaxSnippetLines
            /\ TextEvent(t, toks)
    \/ \E outcome \in {"rust", "Err"} : CodeBlockEvent(TRUE, outcome)
    \/ CodeBlockEvent(FALSE, None)
    \/ EndCodeBlock
    \/ Finish

SpecCodeMention == InitCodeMention /\ [][NextCodeMention]_vars

\* Items inside lists and, as the fold takes the events as they come, items
\* with no list open; paragraphs, text and indented code blocks around them.
InitItem == InitWith(<<>>, "rust", MaxItemEvents)

NextItem ==
    \/ StartParagraph
    \/ EndOther
    \/ \E number \in {NoNumber, Some(MaxListStart)} : StartList(number)
    \/ StartItem
    \/ Top = "Document" /\ ItemEvent
    \/ EndList
    \/ \E t \in {Ab} : Top # "CodeBlock" /\ TextEvent(t, <<>>)
    \/ \E t \in {CodeLine} : \E toks \in FnTokens :
            /\ Top = "CodeBlock"
            /\ Last(tags).items < 1
            /\ TextEvent(t, toks)
    \/ StartCodeBlock(FALSE, None)
    \/ EndCodeBlock
    \/ Finish

SpecItem == InitItem /\ [][NextItem]_vars

\* Line breaks inside list items and inline markup, with a mention waiting
\* in the queue.
InitBreak ==
    \E mq \in MentionQueuesFrom(MaxSrc - 1, 1) : InitWith(mq, None, MaxBreakEvents)

NextBreak ==
    \/ StartParagraph
    \/ EndOther
    \/ StartList(NoNumber)
    \/ StartItem
    \/ EndList
    \/ StartStrong
    \/ EndStrong
    \/ StartEmphasis
    \/ EndEmphasis
    \/ \E u \in {"http://x"} : StartLink(u)
    \/ EndLink
    \/ \E t \in {Ab} : TextEvent(t, <<>>)
    \/ \E k \in {"HardBreak", "SoftBreak"} : BreakEvent(k)
    \/ Finish

SpecBreak == InitBreak /\ [][NextBreak]_vars

\* Every kind of tag, properly nested: blocks, lists, code blocks, inline
\* markup.
InitNest == InitWith(<<>>, None, MaxNestEvents)

NextNest ==
    \/ StartParagraph
    \/ StartHeading
    \/ EndHeading
    \/ EndOther
    \/ StartList(NoNumber)
    \/ StartItem
    \/ EndList
    \/ StartCodeBlock(TRUE, "rust")
    \/ EndCodeBlock
    \/ StartStrong
    \/ EndStrong
    \/ StartEmphasis
    \/ EndEmphasis
    \/ \E u \in {"http://x"} : StartLink(u)
    \/ EndLink
    \/ \E t \in {Ab} : TextEvent(t, <<>>)
    \/ Finish

SpecNest == InitNest /\ [][NextNest]_vars

\* The notifications table: calls of create_notification and
\* remove_notification, one transaction at a time, from an empty table.
InitNotify == InitWith(<<>>, None, 0)

NextNotify ==
    \E recipient_id \in UserIds, notification \in Notifications :
        \/ \E avoid_duplicates \in BOOLEAN :
              create_notification(recipient_id, notification, avoid_duplicates)
        \/ remove_notification(recipient_id, notification)

SpecNotify == InitNotify /\ [][NextNotify]_vars

\* ------------------------------------------------------------------ claims
IsMention(e) == e.highlight.kind \in {"Mention", "SelfMention"}
IsExplicit(e) == e.highlight.kind = "Highlight"

\* The mention and self-mention annotations, in the order of the list.
MentionEntries == SelectSeq(highlights, IsMention)

\* Annotation e is the one mention m yields in the non-code Text event te.
YieldedIn(e, m, te) ==
    LET delta == te.dest - te.source.start
    IN /\ ~te.code
       /\ te.source.start <= m.range.start /\ m.range.end <= te.source.end
       /\ e.range = Range(m.range.start + delta, m.range.end + delta)
       /\ (e.highlight.kind = "SelfMention") = m.is_self_mention
       /\ IsMention(e)

Yielded(e, m) == \E i \in 1..Len(text_log) : YieldedIn(e, m, text_log[i])

\* Mention m lies inside the source range of one non-code Text event.
InsideTextEvent(m) ==
    \E i \in 1..Len(text_log) :
        /\ ~text_log[i].code
        /\ text_log[i].source.start <= m.range.start
        /\ m.range.end <= text_log[i].source.end

\* C1: the highlights list render_markdown returns is sorted ascending by
\* range start and its ranges are pairwise non-overlapping.
C1_HighlightsSortedDisjoint ==
    pc = "done" =>
        \A i, j \in 1..Len(highlights) :
            i < j => /\ highlights[i].range.start <= highlights[j].range.start
                     /\ highlights[i].range.end <= highlights[j].range.start

\* C4: two consecutive non-code Text events with contiguous spans and the
\* same non-default style are covered by a single explicit-style entry, and
\* no second entry starts at the later span.
C4_AdjacentRunsMerged ==
    \A i \in 1..(Len(text_log) - 1) :
        LET a == text_log[i]
            b == text_log[i + 1]
        IN (/\ ~a.code /\ ~b.code
            /\ a.dest + a.len = b.dest
            /\ a.style = b.style
            /\ a.style # DefaultStyle)
           => /\ \E k \in 1..Len(highlights) :
                    /\ highlights[k].highlight = HStyle(a.style)
                    /\ highlights[k].range.start <= a.dest
                    /\ highlights[k].range.end >= b.dest + b.len
              /\ ~\E k \in 1..Len(highlights) :
                    /\ IsExplicit(highlights[k])
                    /\ highlights[k].range.start = b.dest

\* C6: every mention or self-mention annotation is the annotation of a
\* distinct mention of the input queue that lies inside one non-code Text
\* event: its range is the mention's range shifted by (output offset of the
\* event's text - source start of the event), its variant follows
\* is_self_mention.
C6_MentionAnnotations ==
    \E f \in [1..Len(MentionEntries) -> 1..Len(all_mentions)] :
        /\ \A i, j \in 1..Len(MentionEntries) : i # j => f[i] # f[j]
        /\ \A i \in 1..Len(MentionEntries) :
              Yielded(MentionEntries[i], all_mentions[f[i]])

\* C6 witness: a self-mention annotated in a text event whose text begins
\* at an output offset different from its source offset, after a mention
\* annotated before it.
C6_Witness ==
    \E i \in 2..Len(MentionEntries), j \in 1..Len(text_log) :
        /\ MentionEntries[i].highlight.kind = "SelfMention"
        /\ text_log[j].dest # text_log[j].source.start
        /\ \E k \in 1..Len(all_mentions) :
              YieldedIn(MentionEntries[i], all_mentions[k], text_log[j])

\* C7: every mention of the queue that lies inside one non-code Text event
\* has exactly one annotation, whatever else is in the queue.
C7_ContainedMentionAnnotated ==
    \A k \in 1..Len(all_mentions) :
        InsideTextEvent(all_mentions[k]) =>
            Cardinality({i \in 1..Len(highlights) :
                           Yielded(highlights[i], all_mentions[k])}) = 1

\* An event was processed in this step.
Processed == Len(stream') = Len(stream) + 1

\* The step processes a Text event outside code.
NonCodeTextStep ==
    Processed /\ Last(stream').kind = "Text" /\ current_language = None

\* The step processes a Text event inside code.
CodeTextStep ==
    Processed /\ Last(stream').kind = "Text" /\ current_language # None

\* The destination of the link the stream is inside of, from the stream.
RECURSIVE LastLinkUrl(_)
LastLinkUrl(evs) ==
    IF evs = <<>> THEN None
    ELSE IF Last(evs).kind = "Start" /\ Last(evs).tag = "Link"
         THEN Last(evs).t[1]
         ELSE LastLinkUrl(Pop(evs))

ActiveLinkUrl == IF Open("Link") THEN LastLinkUrl(stream) ELSE None

Sorted(ranges) ==
    \A i, j \in 1..Len(ranges) :
        i < j => /\ ranges[i].start <= ranges[j].start
                 /\ ranges[i].end <= ranges[j].start

\* C2: every highlight range and every link range of the returned document
\* lies inside the trimmed text.
C2_RangesInsideText ==
    pc = "done" =>
        /\ \A i \in 1..Len(highlights) :
              /\ highlights[i].range.start <= highlights[i].range.end
              /\ highlights[i].range.end <= Len(text)
        /\ \A i \in 1..Len(link_ranges) :
              /\ link_ranges[i].start <= link_ranges[i].end
              /\ link_ranges[i].end <= Len(text)

C3_Step ==
    /\ Len(link_ranges') = Len(link_urls')
    /\ link_ranges' = link_ranges => link_urls' = link_urls
    /\ link_ranges' # link_ranges =>
          /\ Len(link_ranges') = Len(link_ranges) + 1
          /\ SubSeq(link_ranges', 1, Len(link_ranges)) = link_ranges
          /\ ActiveLinkUrl # None
          /\ link_urls' = Append(link_urls, ActiveLinkUrl)

\* C3: link_ranges and link_urls always have the same length, and the url
\* appended with a range is the destination of the link active then; entries
\* once appended stay.
C3_LinkTablesCorrelated ==
    Len(link_ranges) = Len(link_urls) /\ [][C3_Step]_vars

\* C3 witness: two links with different destinations, one range each.
C3_Witness ==
    /\ Len(link_ranges) = 2
    /\ link_urls = <<"http://x", "http://y">>

\* The annotations a step appended.
Appended == SubSeq(highlights', Len(highlights) + 1, Len(highlights'))

C5_Step ==
    CodeTextStep =>
        LET p == Len(text)
            n == Len(Last(stream').t)
            toks == Last(text_log').toks
            new == Appended
            ids == SelectSeq(new, LAMBDA e : e.highlight.kind = "Id")
        IN /\ text' = text \o Last(stream').t
           /\ SubSeq(highlights', 1, Len(highlights)) = highlights
           /\ \A i \in 1..Len(new) :
                 /\ new[i].highlight.kind \in {"Id", "Code"}
                 /\ p <= new[i].range.start
                 /\ new[i].range.start < new[i].range.end
                 /\ new[i].range.end <= p + n
           /\ \A i \in 1..(Len(new) - 1) :
                 /\ new[i].range.end = new[i + 1].range.start
                 /\ ~(new[i].highlight.kind = "Code"
                      /\ new[i + 1].highlight.kind = "Code")
           /\ n > 0 => /\ new # <<>>
                       /\ new[1].range.start = p
                       /\ Last(new).range.end = p + n
           /\ Len(ids) = Len(toks)
           /\ \A i \in 1..Len(toks) :
                 ids[i] = Entry(p + toks[i].range.start,
                                p + toks[i].range.end, HId(toks[i].id))
           /\ (toks = <<>> /\ n > 0) => new = <<Entry(p, p + n, HCode)>>

\* C5: the annotations render_code appends for a code string of length n at
\* offset p are ascending, disjoint and cover exactly [p, p+n): one
\* syntax-id annotation per token, one generic-code annotation per
\* non-empty gap, a single generic-code annotation when there is no token.
C5_FullCoverage == [][C5_Step]_vars

\* C5 witness: code appended after earlier output, with a gap between two
\* tokens.
C5_Witness ==
    /\ ev.kind = "Text"
    /\ Last(text_log).code
    /\ Last(text_log).dest > 0
    /\ Len(Last(text_log).toks) = 2
    /\ Len(highlights) >= 3
    /\ highlights[Len(highlights)].highlight.kind = "Id"
    /\ highlights[Len(highlights) - 1].highlight.kind = "Code"
    /\ highlights[Len(highlights) - 2].highlight.kind = "Id"

\* The counter frames are those of the open lists: declared start number
\* plus items started so far.
FramesMatch ==
    LET lists == SelectSeq(tags, LAMBDA g : g.tag = "List")
    IN /\ Len(list_stack) = Len(lists)
       /\ \A i \in 1..Len(lists) :
             list_stack[i].number =
                 IF lists[i].start.some
                 THEN Some(lists[i].start.v + lists[i].items)
                 ELSE NoNumber

\* The text ends with marker m, which begins a line or follows indentation.
EndsWithMarker(m) ==
    /\ Len(text) >= Len(m)
    /\ SubSeq(text, Len(text) - Len(m) + 1, Len(text)) = m
    /\ Len(text) > Len(m) => text[Len(text) - Len(m)] \in {nl, sp}

\* C8: the k-th item start (k = 0, 1, ...) of an ordered list declared to
\* start at s emits "{s+k}. ", nested lists opened and closed in between
\* notwithstanding; an item of an unordered list emits "- ".
C8_ListMarkers ==
    /\ FramesMatch
    /\ (pc = "fold" /\ ev.kind = "Start" /\ ev.tag = "Item") =>
          LET list == tags[Len(tags) - 1]
          IN IF list.start.some
             THEN EndsWithMarker(Decimal(list.start.v + list.items - 1)
                                 \o <<".", sp>>)
             ELSE EndsWithMarker(<<"-", sp>>)

\* C8 witness: the second item of an ordered list declared to start at
\* MaxListStart, after a nested list was opened and closed in its first item.
C8_Witness ==
    /\ pc = "fold" /\ ev.kind = "Start" /\ ev.tag = "Item"
    /\ tags[Len(tags) - 1].start = Some(MaxListStart)
    /\ tags[Len(tags) - 1].items = 2
    /\ \E i \in 1..Len(stream) : stream[i].kind = "End" /\ stream[i].tag = "List"

Explicit(hl) == SelectSeq(hl, IsExplicit)

C9_Step ==
    NonCodeTextStep =>
        LET p == Len(text)
            q == Len(text')
            st == Style(IF Open("Heading") \/ Open("Strong") THEN "BOLD" ELSE None,
                        IF Open("Emphasis") THEN "Italic" ELSE None,
                        Open("Link"))
            old == Explicit(highlights)
            new == Explicit(highlights')
        IN /\ (bold_depth > 0) = (Open("Heading") \/ Open("Strong"))
           /\ (italic_depth > 0) = Open("Emphasis")
           /\ (link_url # None) = Open("Link")
           /\ IF bold_depth = 0 /\ italic_depth = 0 /\ link_url = None
              THEN new = old
              ELSE \/ new = Append(old, Entry(p, q, HStyle(st)))
                   \/ /\ old # <<>>
                      /\ Last(old).highlight = HStyle(st)
                      /\ Last(old).range.end = p
                      /\ new = [old EXCEPT ![Len(old)].range.end = q]

\* The stream of `**bold** text`.
BoldTextStream ==
    <<Event("Start", "Paragraph", <<>>), Event("Start", "Strong", <<>>),
      Event("Text", None, Bold), Event("End", "Strong", <<>>),
      Event("Text", None, SpText), Event("End", "Paragraph", <<>>)>>

C9_Scenario ==
    (pc = "done" /\ stream = BoldTextStream) =>
        /\ text = Bold \o SpText
        /\ highlights = <<Entry(0, 4, HStyle(Style("BOLD", None, FALSE)))>>

\* C9: a non-code Text event yields at most one explicit-style annotation for
\* its span (a new entry or the extension of the last one), bold iff inside a
\* heading or strong, italic iff inside emphasis, underlined iff inside a
\* link; none when it is inside none of them; `**bold** text` gives
\* "bold text" with one bold highlight over [0,4).
C9_EffectiveStyle == [][C9_Step]_vars /\ []C9_Scenario

\* C9 witness: text nested in strong and emphasis gave one bold+italic run.
C9_Witness ==
    /\ ev.kind = "Text"
    /\ Open("Strong") /\ Open("Emphasis")
    /\ Explicit(highlights) =
          <<Entry(0, Len(text), HStyle(Style("BOLD", "Italic", FALSE)))>>

C10_Step ==
    /\ (Processed /\ Last(stream').kind \in {"Text", "Code"}) =>
          text' = text \o Last(stream').t
    /\ IF /\ Processed
          /\ ActiveLinkUrl # None
          /\ \/ Last(stream').kind = "Code"
             \/ Last(stream').kind = "Text" /\ current_language = None
       THEN /\ link_ranges' = Append(link_ranges,
                                     Range(Len(text),
                                           Len(text) + Len(Last(stream').t)))
            /\ link_urls' = Append(link_urls, ActiveLinkUrl)
       ELSE UNCHANGED <<link_ranges, link_urls>>

\* The stream of `[link](http://x)`.
LinkStream ==
    <<Event("Start", "Paragraph", <<>>), Event("Start", "Link", <<"http://x">>),
      Event("Text", None, LinkT), Event("End", "Link", <<>>),
      Event("End", "Paragraph", <<>>)>>

C10_Scenario ==
    (pc = "done" /\ stream = LinkStream) =>
        /\ link_ranges = <<Range(0, 4)>>
        /\ link_urls = <<"http://x">>
        /\ highlights = <<Entry(0, 4, HStyle(UnderlineStyle))>>

\* C10: a non-code Text event or an inline code span inside a link appends
\* exactly one (range, url) pair, the span just appended and the link's
\* destination; every other event appends nothing to the link tables;
\* link_ranges are ascending and disjoint; `[link](http://x)` gives
\* link_ranges [[0,4)], link_urls ["http://x"], one underline over [0,4).
C10_LinkTable ==
    [][C10_Step]_vars /\ []Sorted(link_ranges) /\ []C10_Scenario

\* C10 witness: a link holding a text run and a code span, two pairs appended.
C10_Witness ==
    /\ Len(link_ranges) = 2
    /\ Open("Link")
    /\ \E i, j \in 1..Len(stream) :
          /\ stream[i].kind = "Text" /\ stream[j].kind = "Code"
          /\ \E k \in 1..Len(stream) :
                /\ stream[k].kind = "Start" /\ stream[k].tag = "Link"
                /\ k < i /\ k < j

\* str::trim_start, str::trim
RECURSIVE TrimStart(_)
TrimStart(s) ==
    IF s # <<>> /\ IsWhitespace(Head(s)) THEN TrimStart(Tail(s)) ELSE s

Trim(s) == Truncate(TrimStart(s))

\* The stream has paragraphs, text runs and soft breaks only, and there is
\* no mention.
PlainInput ==
    /\ all_mentions = <<>>
    /\ \A i \in 1..Len(stream) :
          \/ stream[i].kind \in {"Text", "SoftBreak"}
          \/ stream[i].kind \in {"Start", "End"} /\ stream[i].tag = "Paragraph"

\* The inputs of the stream, with or without a final line break.
PlainBlocks(blanks) ==
    LET bs == Blocks(stream, blanks)
    IN bs \cup {Append(b, nl) : b \in bs}

InLinkAt(k) ==
    \E j \in 1..(k - 1) :
        /\ stream[j].kind = "Start" /\ stream[j].tag = "Link"
        /\ \A i \in (j + 1)..(k - 1) :
              ~(stream[i].kind = "End" /\ stream[i].tag = "Link")

\* No block began after event k: the events after it only appended their
\* own characters.
SameBlockSince(k) ==
    \A j \in (k + 1)..Len(stream) :
        ~(stream[j].kind = "Start"
          /\ stream[j].tag \in {"Paragraph", "Heading", "CodeBlock", "Item"})

\* The characters the events after event k appended.
RECURSIVE AppendedAfter(_)
AppendedAfter(k) ==
    IF k >= Len(stream) THEN 0
    ELSE LET e == stream[k + 1]
         IN (IF e.kind \in {"Text", "Code"} THEN Len(e.t)
             ELSE IF e.kind \in {"SoftBreak", "HardBreak"} THEN 1
             ELSE 0) + AppendedAfter(k + 1)

\* Annotation e lies over some character of [p, q).
Touches(e, p, q) == e.range.start < q /\ p < e.range.end

\* C12: the underline annotation of an inline code span inside a link covers
\* exactly the span: it is in the list with the span's range, and it is the
\* only explicit-style annotation over the span's characters, whatever
\* precedes or follows the span in the link.
C12_CodeSpansNeverMerged ==
    pc = "fold" =>
        \A k \in 1..Len(stream) :
            (stream[k].kind = "Code" /\ InLinkAt(k) /\ SameBlockSince(k)) =>
                LET q == Len(text) - AppendedAfter(k)
                    p == q - Len(stream[k].t)
                IN /\ \E i \in 1..Len(highlights) :
                         highlights[i] = Entry(p, q, HStyle(UnderlineStyle))
                   /\ \A i \in 1..Len(highlights) :
                         (IsExplicit(highlights[i]) /\ Touches(highlights[i], p, q))
                             => highlights[i].range = Range(p, q)

C13_Step ==
    CodeTextStep =>
        /\ text' = text \o Last(stream').t
        /\ mentions' = mentions
        /\ link_ranges' = link_ranges /\ link_urls' = link_urls
        /\ Len(highlights') >= Len(highlights)
        /\ SubSeq(highlights', 1, Len(highlights)) = highlights
        /\ \A i \in 1..Len(Appended) :
              Appended[i].highlight.kind \in {"Code", "Id"}
        /\ UNCHANGED <<bold_depth, italic_depth, link_url, current_language,
                       list_stack>>

\* C13: a Text event processed while current_language is set consumes no
\* mention, appends no mention, self-mention or explicit-style annotation,
\* changes no existing annotation and appends nothing to the link tables,
\* whatever bold_depth, italic_depth and link_url are; what it appends to
\* the highlights is generic-code and syntax-id annotations only.
C13_CodeBypass == [][C13_Step]_vars

\* C13 witness: code text processed inside strong and a link, while the
\* front mention of the queue lies inside the text's source range.
C13_Witness ==
    /\ ev.kind = "Text" /\ current_language # None
    /\ Last(text_log).code
    /\ bold_depth > 0 /\ link_url # None
    /\ mentions # <<>>
    /\ contains_inclusive(Last(text_log).source, Head(mentions).range)
    /\ Len(highlights) >= 2

IsCodeBlock(e, kind) == e.kind = kind /\ e.tag = "CodeBlock"

\* The Start event of the code block that is open before event k, 0 when
\* none is.
EnclosingBlock(k) ==
    LET open == {j \in 1..(k - 1) :
                   /\ IsCodeBlock(stream[j], "Start")
                   /\ \A i \in (j + 1)..(k - 1) : ~IsCodeBlock(stream[i], "End")}
    IN IF open = {} THEN 0 ELSE CHOOSE j \in open : \A i \in open : i <= j

\* The language of the block that is open before event k, from the block's
\* Start event alone: the registry's answer when it is a language, the
\* caller's default for an indented block, none otherwise.
BlockLanguage(k) ==
    LET b == EnclosingBlock(k)
    IN IF b = 0 THEN None
       ELSE IF stream[b].t[1] = "Indented" THEN language
       ELSE IF stream[b].t[2] \in Languages THEN stream[b].t[2]
       ELSE None

\* C14: current_language is settled by the Start event of the open code
\* block alone (the registry's answer at that event when it is a language,
\* unset when it is pending or an error, the caller's default for an
\* indented block) and is unset outside code blocks; the text of a block
\* without language is appended without generic-code or syntax-id
\* annotation, and so is every text outside code blocks, whatever an earlier
\* block resolved to.
C14_LanguageFallback ==
    /\ current_language = BlockLanguage(Len(stream) + 1)
    /\ \A i \in 1..Len(text_log) :
          LET te == text_log[i]
              lang == BlockLanguage(te.at)
          IN /\ te.code = (lang # None)
             /\ stream[te.at].kind = "Text"
             /\ lang = None =>
                   \A j \in 1..Len(highlights) :
                       highlights[j].highlight.kind \in {"Code", "Id"} =>
                           ~Touches(highlights[j], te.dest, te.dest + te.len)

\* C14 witness: a fenced block whose language resolved, then a fenced block
\* whose resolution is pending, each with one line of text.
C14_Witness ==
    /\ Len(text_log) = 2
    /\ text_log[1].code /\ ~text_log[2].code
    /\ EnclosingBlock(text_log[2].at) # 0
    /\ stream[EnclosingBlock(text_log[2].at)].t = <<"Fenced", "Pending">>
    /\ highlights # <<>>
    /\ current_language = None /\ Top = "CodeBlock"

\* The step processes the start of a block that calls new_paragraph.
ParagraphBreakStep ==
    /\ Processed
    /\ Last(stream').kind = "Start"
    /\ Last(stream').tag \in {"Paragraph", "Heading", "CodeBlock"}

\* n spaces.
Blank(n) == [i \in 1..n |-> sp]

C15_Step ==
    ParagraphBreakStep =>
        LET depth == Len(list_stack)
        IN IF depth > 0 /\ ~list_stack[depth].has_content
           THEN /\ text' = text
                /\ list_stack' = [list_stack EXCEPT ![depth].has_content = TRUE]
           ELSE /\ list_stack' = list_stack
                /\ text' = text
                      \o (IF text = <<>> THEN <<>>
                          ELSE IF text[Len(text)] = nl THEN <<nl>>
                          ELSE <<nl, nl>>)
                      \o Blank(IF depth > 0 THEN 2 * (depth - 1) ELSE 0)
                      \o Blank(IF depth > 0 THEN 2 ELSE 0)

\* C15: new_paragraph only marks the innermost list frame when that frame
\* has not emitted content yet; otherwise it appends, to a non-empty text,
\* one line break when the text ends with one and two when it does not,
\* then 2*(depth-1) spaces when lists are open, then 2 more spaces when the
\* innermost frame had emitted content; the frames stay as they are.
C15_ParagraphBreak == [][C15_Step]_vars

\* C15 witness: the second paragraph of an item of a nested list.
C15_Witness ==
    /\ ev.kind = "Start" /\ ev.tag = "Paragraph"
    /\ Len(list_stack) = 2
    /\ Len(text) >= 6
    /\ SubSeq(text, Len(text) - 5, Len(text)) = <<nl, nl, sp, sp, sp, sp>>

C16_Step ==
    (Processed /\ Last(stream').kind = "Start" /\ Last(stream').tag = "Item") =>
        LET d == Len(list_stack)
        IN /\ UNCHANGED <<highlights, link_ranges, link_urls, bold_depth,
                          italic_depth, link_url, current_language, mentions>>
           /\ IF d = 0
              THEN UNCHANGED <<text, list_stack>>
              ELSE /\ text' = text
                         \o (IF text # <<>> /\ text[Len(text)] # nl
                             THEN <<nl>> ELSE <<>>)
                         \o Blank(2 * (d - 1))
                         \o ItemMarker(list_stack[d].number)
                   /\ Len(list_stack') = d
                   /\ list_stack'[d].has_content = FALSE
                   /\ \A i \in 1..(d - 1) : list_stack'[i] = list_stack[i]

\* C16: with d >= 1 lists open, an Item start appends one line break iff
\* the text is non-empty and does not end with one, then 2*(d-1) spaces,
\* then the marker, and sets has_content of the innermost frame to false;
\* the outer frames, the highlights and the link tables stay as they are.
\* With no list open an Item start changes nothing.
C16_ItemStart == [][C16_Step]_vars

\* C16 witness: an item of a nested list begun after text on the same line,
\* in a stream that began with an item outside any list.
C16_Witness ==
    /\ ev.kind = "Start" /\ ev.tag = "Item"
    /\ Len(list_stack) = 2
    /\ stream[1].kind = "Start" /\ stream[1].tag = "Item"
    /\ Len(text) >= 7
    /\ SubSeq(text, Len(text) - 6, Len(text)) = <<"a", "b", nl, sp, sp, "-", sp>>

C17_Step ==
    (Processed /\ Last(stream').kind \in {"HardBreak", "SoftBreak"}) =>
        /\ text' = Append(text, nl)
        /\ UNCHANGED <<highlights, link_ranges, link_urls, bold_depth,
                       italic_depth, link_url, current_language, list_stack,
                       mentions>>

\* C17: a hard break or a soft break appends one line-break character to
\* the text, no blank line and no indentation, and leaves the highlights,
\* the link tables, the depths, the link, the code language, the list stack
\* with its flags and the mention queue as they are.
C17_BreakFrame == [][C17_Step]_vars

\* C17 witness: a break after bold link text in the first paragraph of a
\* list item, with a mention still in the queue.
C17_Witness ==
    /\ ev.kind \in {"HardBreak", "SoftBreak"}
    /\ list_stack # <<>> /\ Last(list_stack).has_content
    /\ bold_depth > 0 /\ link_url # None
    /\ mentions # <<>>
    /\ highlights # <<>> /\ link_ranges # <<>>
    /\ Last(text) = nl /\ text[Len(text) - 1] = "b"

\* How many of the open tags are of the given kinds.
OpenCount(kinds) == Cardinality({i \in 1..Len(tags) : tags[i].tag \in kinds})

\* C18: in a properly nested stream, after every event bold_depth is the
\* number of open heading and strong tags and italic_depth the number of
\* open emphasis tags, so neither is negative; when every tag is closed
\* both are 0, link_url and current_language are unset and list_stack is
\* empty.
C18_DepthsMatchOpenTags ==
    /\ bold_depth = OpenCount({"Heading", "Strong"})
    /\ italic_depth = OpenCount({"Emphasis"})
    /\ bold_depth >= 0 /\ italic_depth >= 0
    /\ tags = <<>> =>
          /\ bold_depth = 0 /\ italic_depth = 0
          /\ link_url = None /\ current_language = None
          /\ list_stack = <<>>

\* C18 witness: a strong span closed inside a heading that is still open,
\* after an earlier heading was closed.
C18_Witness ==
    /\ ev.kind = "End" /\ ev.tag = "Strong"
    /\ Open("Heading")
    /\ bold_depth = 1
    /\ \E i \in 1..Len(stream) : stream[i].kind = "End" /\ stream[i].tag = "Heading"

\* How many mentions have left the queue.
Consumed == Len(all_mentions) - Len(mentions)

IsSuffix(s, t) == Len(s) <= Len(t) /\ s = SubSeq(t, Len(t) - Len(s) + 1, Len(t))

C19_State ==
    /\ IsSuffix(mentions, all_mentions)
    /\ Len(MentionEntries) = Consumed
    /\ \A i \in 1..Consumed :
          /\ Yielded(MentionEntries[i], all_mentions[i])
          /\ InsideTextEvent(all_mentions[i])

C19_Step ==
    /\ IsSuffix(mentions', mentions)
    /\ mentions' # mentions =>
          /\ NonCodeTextStep
          /\ \A i \in 1..(Len(mentions) - Len(mentions')) :
                contains_inclusive(Last(text_log').source, mentions[i].range)

\* C19: the queue is consumed from the front only: what is left is always a
\* suffix of the input queue, the mention annotations are those of the
\* consumed prefix, in queue order, and a mention leaves the queue only in
\* a non-code Text step whose source range contains it.
C19_FrontConsumption == []C19_State /\ [][C19_Step]_vars

\* C19 witness: two mentions consumed by two different text events.
C19_Witness ==
    /\ Len(all_mentions) = 2 /\ mentions = <<>>
    /\ Len(MentionEntries) = 2
    /\ \E i, j \in 1..Len(text_log) :
          /\ i < j
          /\ YieldedIn(MentionEntries[1], all_mentions[1], text_log[i])
          /\ YieldedIn(MentionEntries[2], all_mentions[2], text_log[j])

\* The unread rows of a recipient that hold the notification: same kind,
\* same actor, and decoding to it.
Matching(recipient_id, notification) ==
    {r \in rows :
        /\ r.recipient_id = recipient_id
        /\ ~r.is_read
        /\ notification_kinds_by_id[r.kind] = notification.kind
        /\ r.actor_id = Some(notification.actor_id)
        /\ from_proto(model_to_proto(r)) = notification}

C20_Step ==
    LET same == Matching(call'.recipient_id, call'.notification)
    IN /\ (call'.op = "create" /\ call'.avoid_duplicates) =>
             IF same # {}
             THEN rows' = rows /\ call'.result = NoNumber
             ELSE \E r \in rows' :
                     /\ r \notin rows
                     /\ rows' = rows \cup {r}
                     /\ r \in {x \in rows' : ~x.is_read}
                     /\ r.recipient_id = call'.recipient_id
                     /\ from_proto(model_to_proto(r)) = call'.notification
                     /\ call'.result = Some(r.id)
       /\ call'.op = "remove" =>
             IF same = {}
             THEN rows' = rows /\ call'.result = NoNumber
             ELSE \E r \in same :
                     /\ rows' = rows \ {r}
                     /\ call'.result = Some(r.id)

C20_State ==
    ~forced =>
        \A recipient_id \in UserIds, notification \in Notifications :
            Cardinality(Matching(recipient_id, notification)) <= 1

\* C20: create_notification with avoid_duplicates = true inserts nothing
\* and returns None when the recipient has an unread row of the same kind
\* and actor that decodes to the notification, and inserts exactly one
\* unread row otherwise; from an empty table, as long as every insertion
\* avoided duplicates, there is at most one unread row per recipient and
\* notification; remove_notification deletes one matching row and returns
\* its id, or returns None and leaves the table as it is.
C20_Deduplication == []C20_State /\ [][C20_Step]_vars

\* C20 witness: a second create_notification for a recipient who has the
\* notification is refused, while another recipient has the same
\* notification and every insertion so far avoided duplicates.
C20_Witness ==
    /\ ~forced
    /\ call.op = "create" /\ call.avoid_duplicates /\ call.result = NoNumber
    /\ Cardinality(rows) >= 2
    /\ \A u \in UserIds : Matching(u, call.notification) # {}

====
